---------------------------- MODULE Spec2Model ----------------------------
(***************************************************************************)
(* Easy-Weather: the /api/forecast proxy (route.ts).                       *)
(*                                                                         *)
(* The repository holds three revisions of the handler, all headed         *)
(* "apps/web/src/app/api/forecast/route.ts":                               *)
(*   "route" : src/apps/web/src/app/api/forecast/route.ts                   *)
(*   "p004"  : src/unnamed/part_004  (normalizeTimezone, key repair)        *)
(*   "p005"  : src/unnamed/part_005  (parseNum, reverse geocoding)          *)
(* The variable `variant` says which revision serves the request.          *)
(*                                                                         *)
(* Encoding of JavaScript values:                                          *)
(*   - an object is a record; a property that is undefined is a key that   *)
(*     is absent (what JSON.stringify makes of it);                        *)
(*   - null is the record Null;                                            *)
(*   - a number is [fin, v]: a finite value v in 1/10000 units, or NaN /   *)
(*     Infinity;                                                           *)
(*   - an array is a sequence; JavaScript index i is TLA+ index i + 1;     *)
(*   - a value read at an index (arr[idx]) is a sequence of length <= 1:   *)
(*     << >> is undefined.                                                 *)
(***************************************************************************)
EXTENDS Integers, Sequences, FiniteSets, TLC

VARIABLES
    variant,      \* which revision of route.ts handles the request
    req,          \* the query parameters: [city, lat, lon]
    pc,           \* where the handler GET stands
    place,        \* GET's local `place`
    geo,          \* what the place lookup (geocode / reverse) delivered
    fr,           \* the fetchRetry call in progress
    urls,         \* the upstream calls made so far (history)
    weatherJson,  \* the parsed weather body (GET's weatherJson / weather)
    aqiJson,      \* the parsed air-quality body, or what became of the call
    response,     \* the NextResponse returned, or NoResponse
    handlers,     \* the locals of the invocations of GET that run concurrently
    ft,           \* one fetchRetry call with its timers and abort controllers
    sw,           \* the service worker: its cache and the fetch event it handles
    sugg,         \* page.tsx: the query, its debounced value, the suggestions effect
    rc            \* page.tsx: the recents list and the forecast loads

\* The state of a single invocation of GET with its fetchRetry calls.
single == <<variant, req, pc, place, geo, fr, urls, weatherJson, aqiJson, response>>

vars == <<variant, req, pc, place, geo, fr, urls, weatherJson, aqiJson, response,
          handlers, ft, sw, sugg, rc>>

\* What each specification leaves alone.
outsideSpec == <<handlers, ft, sw, sugg, rc>>
outsideConc == <<single, ft, sw, sugg, rc>>
outsideTimed == <<single, handlers, sw, sugg, rc>>
outsideWorker == <<single, handlers, ft, sugg, rc>>
outsideSuggestions == <<single, handlers, ft, sw, rc>>
outsideRecents == <<single, handlers, ft, sw, sugg>>

Variants == {"route", "p004", "p005"}

(***************************************************************************)
(* Bounds of the model.                                                    *)
(***************************************************************************)
\* Longest air-quality hourly.time array the upstream delivers.
MaxLen == 2

(***************************************************************************)
(* JavaScript values.                                                      *)
(***************************************************************************)
Null == [null |-> TRUE]

Num(v) == [fin |-> TRUE, v |-> v]
NaN == [fin |-> FALSE, v |-> 0]
Infinity == [fin |-> FALSE, v |-> 1]

\* searchParams.get(k) of a parameter that is not in the query: null.
NoParam == "<null>"

\* Number(s) / +s on the strings the requests of the model carry.
ToNumber(s) ==
    CASE s = "59.33"    -> Num(593300)
      [] s = "18.07"    -> Num(180700)
      [] s = "95"       -> Num(950000)
      [] s = ""         -> Num(0)
      [] s = "Infinity" -> Infinity
      [] OTHER          -> NaN

NumberIsNaN(n) == n = NaN
NumberIsFinite(n) == n.fin

\* String.prototype.trim on the city strings of the model.
Trim(s) == IF s \in {" ", ""} THEN "" ELSE s

\* (searchParams.get("city") || "").trim()
CityRaw(q) == IF q.city = NoParam THEN "" ELSE Trim(q.city)

Has(obj, k) == k \in DOMAIN obj

\* obj.k ?? null
OrNull(obj, k) == IF Has(obj, k) THEN obj[k] ELSE Null

\* arr[idx] for the 1-based idx of the model
At(arr, idx) == IF idx \in 1..Len(arr) THEN <<arr[idx]>> ELSE << >>

\* arr.indexOf(x) + 1 : the first position of x, 0 when x is not in arr
IndexOf(arr, x) ==
    IF \E i \in 1..Len(arr) : arr[i] = x
    THEN CHOOSE i \in 1..Len(arr) : arr[i] = x /\ \A j \in 1..(i - 1) : arr[j] # x
    ELSE 0


\* obj with property k set to val (when present), as an object literal does
With(obj, k, present, val) ==
    IF present
    THEN [x \in DOMAIN obj \cup {k} |-> IF x = k THEN val ELSE obj[x]]
    ELSE obj

(***************************************************************************)
(* What the upstreams can answer.                                          *)
(***************************************************************************)
\* HTTP statuses of an upstream response: success, client error, server error.
Statuses == {200, 404, 503}

\* How fetch() rejects: the attempt's timer aborted it, or the network failed.
AbortMessage == "This operation was aborted"
NetworkMessage == "fetch failed"
FetchErrors == {AbortMessage, NetworkMessage}

\* The outcome of one attempt: a response with a status, or a rejection.
Resp(s) == [status |-> s, error |-> ""]
Rejected(e) == [status |-> 0, error |-> e]
IsResponse(o) == o.status # 0

\* res.json() threw: the body is not JSON.
Unreadable == [unreadable |-> TRUE]
JsonMessage == "Unexpected token < in JSON"
\* The call failed (fetchRetry threw), or was never made.
Failed == [failed |-> TRUE]
NotCalled == [notCalled |-> TRUE]

ParisTZ ==
    [name |-> "Paris", country |-> "France", admin1 |-> "Ile-de-France",
     latitude |-> Num(488566), longitude |-> Num(23522),
     timezone |-> "Europe/Paris"]
ParisNoTZ ==
    [name |-> "Paris", country |-> "France", admin1 |-> "Ile-de-France",
     latitude |-> Num(488566), longitude |-> Num(23522)]
ParisTexas ==
    [name |-> "Paris", country |-> "United States", admin1 |-> "Texas",
     latitude |-> Num(336609), longitude |-> Num(0 - 955555),
     timezone |-> "America/Chicago"]

\* Bodies of the geocoding-by-name upstream (OpenMeteoGeocodeJSON).
GeocodeBodies ==
    { [generationtime_ms |-> 1],
      [generationtime_ms |-> 1, results |-> << >>],
      [generationtime_ms |-> 1, results |-> <<ParisTZ>>],
      [generationtime_ms |-> 1, results |-> <<ParisNoTZ, ParisTexas>>] }

\* Bodies of the reverse-geocoding upstream.
ReverseBodies ==
    { [generationtime_ms |-> 1],
      [generationtime_ms |-> 1,
       results |-> <<[name |-> "Solna", country |-> "Sweden",
                      admin1 |-> "Stockholm", timezone |-> "Europe/Stockholm"]>>],
      [generationtime_ms |-> 1, results |-> <<[country |-> "Sweden"]>>] }

\* Timestamps of the hourly series ("2024-01-01T12:00" and the next hour).
Times == {"T1", "T2"}

\* The timezone field of a weather body; NoTz: the body carries none.
NoTz == "<absent>"
WeatherTimezones == {NoTz, "auto", "Mars/Phobos", "Europe/Paris"}

CurrentWeather ==
    [temperature |-> 5, weathercode |-> 3, windspeed |-> 10, time |-> "T1"]

HourlyAligned == [time |-> <<"T1", "T2">>, temperature_2m |-> <<5, 6>>]
HourlyRagged == [time |-> <<"T1", "T2">>, temperature_2m |-> <<5>>]

WrongMinKey == "temperature_2_ m_min"
DailyBase == [time |-> <<"D1", "D2">>, temperature_2m_max |-> <<9, 8>>]
DailyFull == With(DailyBase, "temperature_2m_min", TRUE, <<1, 2>>)
DailyWrongKey == With(DailyBase, WrongMinKey, TRUE, <<3, 4>>)
DailyBoth == With(DailyFull, WrongMinKey, TRUE, <<3, 4>>)

\* A weather body (OpenMeteoForecastJSON / WeatherResponse); Null marks a
\* section the body does not carry.
WeatherBody(tz, cw, hourly, daily) ==
    With(With(With(With([elevation |-> 38],
        "timezone", tz # NoTz, tz),
        "current_weather", cw # Null, cw),
        "hourly", hourly # Null, hourly),
        "daily", daily # Null, daily)

WeatherBodies ==
    { WeatherBody(tz, cw, HourlyAligned, DailyFull) :
        tz \in WeatherTimezones, cw \in {Null, CurrentWeather} }
    \cup
    { WeatherBody("Europe/Paris", CurrentWeather, hd[1], hd[2]) :
        hd \in { <<Null, Null>>, <<HourlyRagged, DailyWrongKey>>,
                 <<HourlyAligned, DailyBoth>> } }

\* The canonical air-quality values: entry i is recognisable by its value.
AqiSeries(n) == [i \in 1..n |-> 10 + i]
PmSeries(n) == [i \in 1..n |-> 20 + i]

SeqsUpTo(S, n) == UNION { [1..k -> S] : k \in 0..n }

\* An hourly block of the air-quality upstream: time t, european_aqi of
\* length n (absent when n < 0), pm2_5 as long as t (absent unless pm).
AqiHourly(t, n, pm) ==
    With(With([time |-> t],
        "european_aqi", n >= 0, AqiSeries(n)),
        "pm2_5", pm, PmSeries(Len(t)))

\* Bodies of the air-quality upstream (OpenMeteoAQIJSON): no hourly block, or
\* an hourly block whose series may be missing or shorter than time.
AqiBodies ==
    { [elevation |-> 38] }
    \cup
    UNION { { [elevation |-> 38, hourly |-> AqiHourly(t, n, pm)] :
                n \in {0 - 1, Len(t)} \cup (IF Len(t) > 0 THEN {Len(t) - 1} ELSE {}),
                pm \in BOOLEAN } :
            t \in SeqsUpTo(Times, MaxLen) }

(***************************************************************************)
(* fetchRetry(url, opts, retries = 3, backoffMs = 500)                     *)
(***************************************************************************)
DefaultRetries == 3
DefaultBackoffMs == 500
AqiRetries == 2
ReverseRetries == 1

RECURSIVE Pow2(_)
Pow2(n) == IF n = 0 THEN 1 ELSE 2 * Pow2(n - 1)

\* Mutant of BackoffDelay: the exponent is the attempt that follows the
\* delay, not the one that failed.
BackoffDelay_NextAttempt(backoffMs, attempt) == backoffMs * Pow2(attempt + 1)

\* backoffMs * Math.pow(2, attempt)
BackoffDelay(backoffMs, attempt) == backoffMs * Pow2(attempt)

\* res.ok
ResOk(status) == status \in 200..299

\* Mutant of OnCatch: the catch block retries whatever the attempt.
OnCatch_RetriesForever(attempt, retries) == "backoff"

\* Mutant of OnCatch: `attempt <= retries`, one attempt too many.
OnCatch_OneMore(attempt, retries) ==
    IF attempt <= retries THEN "backoff" ELSE "throw"

\* The catch block of the attempt's try: wait and go on, or rethrow.
OnCatch(attempt, retries) ==
    IF attempt < retries THEN "backoff" ELSE "throw"

\* Mutant of OnResponse: a success on the last allowed attempt is not
\* returned but handled as exhaustion.
OnResponse_LastAttemptLost(status, attempt, retries) ==
    IF ResOk(status) /\ attempt < retries THEN "return"
    ELSE IF status >= 500 /\ attempt < retries THEN "backoff"
    ELSE IF attempt < retries THEN "backoff" ELSE "throw"

\* The try block after fetch() resolved with `status`. The throw of
\* `new Error("HTTP <status>")` stands inside the try, so the catch block of
\* the same statement handles it.
OnResponse(status, attempt, retries) ==
    IF ResOk(status) THEN "return"
    ELSE IF status >= 500 /\ attempt < retries THEN "backoff"
    ELSE OnCatch(attempt, retries)

\* What the attempt with outcome o leads to: "return", "backoff" or "throw".
AttemptStep(o, attempt, retries) ==
    IF IsResponse(o) THEN OnResponse(o.status, attempt, retries)
    ELSE OnCatch(attempt, retries)

\* The error the attempt leaves in `err`: `HTTP ${res.status}`, or what
\* fetch() rejected with.
HttpMessage(status) == "HTTP " \o ToString(status)
ThrownError(o) == IF IsResponse(o) THEN HttpMessage(o.status) ELSE o.error

Idle ==
    [call |-> "none", attempt |-> 0, retries |-> 0, phase |-> "idle",
     log |-> << >>, waited |-> << >>, error |-> ""]

\* The call fetchRetry(url, opts, retries): attempt 0 is in flight.
StartCall(call, retries) ==
    [call |-> call, attempt |-> 0, retries |-> retries, phase |-> "inflight",
     log |-> << >>, waited |-> << >>, error |-> ""]

\* The attempt in flight ends with outcome o.
AfterAttempt(f, o) ==
    LET step == AttemptStep(o, f.attempt, f.retries) IN
    [f EXCEPT
        !.log = Append(@, o),
        !.phase = CASE step = "return" -> "returned"
                    [] step = "backoff" -> "backoff"
                    [] OTHER -> "threw",
        !.waited = IF step = "backoff"
                   THEN Append(@, BackoffDelay(DefaultBackoffMs, f.attempt))
                   ELSE @,
        !.error = IF step = "throw" THEN ThrownError(o) ELSE ""]

\* fetch() resolves with a response.
FetchResponds ==
    /\ fr.phase = "inflight"
    /\ \E s \in Statuses : fr' = AfterAttempt(fr, Resp(s))
    /\ UNCHANGED <<outsideSpec, variant, req, pc, place, geo, urls, weatherJson, aqiJson, response>>

\* fetch() rejects: the timer aborted the attempt, or the network failed.
FetchRejects ==
    /\ fr.phase = "inflight"
    /\ \E e \in FetchErrors : fr' = AfterAttempt(fr, Rejected(e))
    /\ UNCHANGED <<outsideSpec, variant, req, pc, place, geo, urls, weatherJson, aqiJson, response>>

\* The backoff delay has elapsed: `continue`, the next attempt starts.
BackoffElapses ==
    /\ fr.phase = "backoff"
    /\ fr' = [fr EXCEPT !.attempt = @ + 1, !.phase = "inflight"]
    /\ UNCHANGED <<outsideSpec, variant, req, pc, place, geo, urls, weatherJson, aqiJson, response>>

(***************************************************************************)
(* GET: resolving the place.                                               *)
(***************************************************************************)
DefaultLatitude == 593293
DefaultLongitude == 180686

\* JavaScript truthiness of a query parameter (string | null).
Truthy(s) == s \notin {NoParam, ""}

\* Mutant of CityName: no default city, the trimmed parameter as it is.
CityName_NoDefault(q) == CityRaw(q)

\* const city = cityRaw || "Stockholm"
CityName(q) == IF CityRaw(q) # "" THEN CityRaw(q) ELSE "Stockholm"

\* cityRaw || "My location"
CoordsName(q) == IF CityRaw(q) # "" THEN CityRaw(q) ELSE "My location"

\* route.ts: latParam && lonParam && !Number.isNaN(+latParam) && ...
CoordsGiven_route(q) ==
    /\ Truthy(q.lat)
    /\ Truthy(q.lon)
    /\ ~NumberIsNaN(ToNumber(q.lat))
    /\ ~NumberIsNaN(ToNumber(q.lon))

\* part_004: latParam !== null && lonParam !== null && !Number.isNaN(...)
CoordsGiven_p004(q) ==
    /\ q.lat # NoParam
    /\ q.lon # NoParam
    /\ ~NumberIsNaN(ToNumber(q.lat))
    /\ ~NumberIsNaN(ToNumber(q.lon))

\* part_005: parseNum; Null is its null.
parseNum(n) ==
    IF ~Truthy(n) THEN Null
    ELSE IF NumberIsFinite(ToNumber(n)) THEN ToNumber(n) ELSE Null

CoordsGiven_p005(q) == parseNum(q.lat) # Null /\ parseNum(q.lon) # Null

\* Mutant of CoordsGiven: a city in the query takes precedence over lat/lon.
CoordsGiven_CityFirst(v, q) ==
    /\ CityRaw(q) = ""
    /\ CASE v = "route" -> CoordsGiven_route(q)
         [] v = "p004"  -> CoordsGiven_p004(q)
         [] OTHER       -> CoordsGiven_p005(q)

CoordsGiven(v, q) ==
    CASE v = "route" -> CoordsGiven_route(q)
      [] v = "p004"  -> CoordsGiven_p004(q)
      [] OTHER       -> CoordsGiven_p005(q)

\* route.ts: the place of the coordinates path.
CoordsPlace_route(q) ==
    [name |-> CoordsName(q), latitude |-> ToNumber(q.lat),
     longitude |-> ToNumber(q.lon), timezone |-> "auto"]

\* part_004: the place of the coordinates path (timezone: undefined).
CoordsPlace_p004(q) ==
    [name |-> CoordsName(q), latitude |-> ToNumber(q.lat),
     longitude |-> ToNumber(q.lon)]

\* Mutant of FallbackPlace_route: latitude and longitude swapped.
FallbackPlace_Swapped(city) ==
    [name |-> city, latitude |-> Num(DefaultLongitude),
     longitude |-> Num(DefaultLatitude), country |-> "Sweden",
     timezone |-> "auto"]

\* route.ts: the fallback when geocoding gave no place.
FallbackPlace_route(city) ==
    [name |-> city, latitude |-> Num(DefaultLatitude),
     longitude |-> Num(DefaultLongitude), country |-> "Sweden",
     timezone |-> "auto"]

\* part_004, part_005: the same fallback, timezone: undefined.
FallbackPlace_later(city) ==
    [name |-> city, latitude |-> Num(DefaultLatitude),
     longitude |-> Num(DefaultLongitude), country |-> "Sweden"]

FallbackPlace(v, city) ==
    IF v = "route" THEN FallbackPlace_route(city) ELSE FallbackPlace_later(city)

PlaceKeys == {"name", "country", "admin1", "latitude", "longitude", "timezone"}

\* pickFirstResult(json.results): Null, or the six fields of results[0].
pickFirstResult(json) ==
    IF ~Has(json, "results") \/ Len(json.results) = 0 THEN Null
    ELSE LET r == json.results[1] IN
         [k \in DOMAIN r \cap PlaceKeys |-> r[k]]

\* The place after the geocode call: body is the parsed body, Unreadable
\* when json() threw, Failed when fetchRetry threw.
GeocodedPlace(v, city, body) ==
    IF body \in {Unreadable, Failed} \/ pickFirstResult(body) = Null
    THEN FallbackPlace(v, city)
    ELSE pickFirstResult(body)

\* n.toFixed(2) of a finite number in 1/10000 units.
Digits2(k) == IF k < 10 THEN "0" \o ToString(k) ELSE ToString(k)
ToFixed2(n) ==
    LET a == IF n.v < 0 THEN 0 - n.v ELSE n.v
        h == (a + 50) \div 100
    IN (IF n.v < 0 /\ h > 0 THEN "-" ELSE "")
         \o ToString(h \div 100) \o "." \o Digits2(h % 100)

\* `${lat.toFixed(2)},${lon.toFixed(2)}`
CoordsLabel(lat, lon) == ToFixed2(lat) \o "," \o ToFixed2(lon)

\* Mutant of ReversePlace_p005: the catch block names the place "My location"
\* as the earlier revisions do, not by the coordinate label.
ReversePlace_FailureUnlabelled(lat, lon, body) ==
    LET base == [name |-> CoordsLabel(lat, lon), latitude |-> lat, longitude |-> lon]
    IN IF body \in {Unreadable, Failed} THEN [base EXCEPT !.name = "My location"]
       ELSE IF ~Has(body, "results") \/ Len(body.results) = 0 THEN base
       ELSE LET r == body.results[1]
                named == With(base, "name", Has(r, "name") /\ r.name # "", r["name"])
            IN [k \in DOMAIN named \cup (DOMAIN r \cap {"country", "admin1", "timezone"}) |->
                   IF k \in DOMAIN named THEN named[k] ELSE r[k]]

\* part_005: the place of the coordinates path, from the reverse lookup.
ReversePlace_p005(lat, lon, body) ==
    LET base == [name |-> CoordsLabel(lat, lon), latitude |-> lat, longitude |-> lon]
    IN IF body \in {Unreadable, Failed} THEN base
       ELSE IF ~Has(body, "results") \/ Len(body.results) = 0 THEN base
       ELSE LET r == body.results[1]
                named == With(base, "name", Has(r, "name") /\ r.name # "", r["name"])
            IN [k \in DOMAIN named \cup (DOMAIN r \cap {"country", "admin1", "timezone"}) |->
                   IF k \in DOMAIN named THEN named[k] ELSE r[k]]

\* Mutant of CoordsUrl: the air-quality URL takes latitude for longitude and
\* longitude for latitude.
CoordsUrl_AqiSwapped(call, p) ==
    IF call = "aqi"
    THEN [call |-> call, lat |-> p.longitude, lon |-> p.latitude]
    ELSE [call |-> call, lat |-> p.latitude, lon |-> p.longitude]

\* The entry of `urls` for a call with coordinates in its URL.
CoordsUrl(call, p) == [call |-> call, lat |-> p.latitude, lon |-> p.longitude]

(***************************************************************************)
(* GET: timezone, air quality, payload.                                    *)
(***************************************************************************)
\* The zones Intl.DateTimeFormat accepts, among those of the model.
ValidTimeZones == {"UTC", "Europe/Paris", "Europe/Stockholm", "America/Chicago"}
IsValidTimeZone(tz) == tz \in ValidTimeZones

\* place.timezone, NoTz when undefined
PlaceTimezone(p) == IF Has(p, "timezone") THEN p.timezone ELSE NoTz

\* part_004: normalizeTimezone(tz); NoTz is undefined
normalizeTimezone(tz) ==
    IF tz \in {NoTz, ""} \/ tz = "auto" THEN "UTC"
    ELSE IF IsValidTimeZone(tz) THEN tz ELSE "UTC"

\* part_004: resolvedTZ
ResolvedTZ_p004(weather, p) ==
    normalizeTimezone(
        IF Has(weather, "timezone") /\ weather.timezone \notin {"", "auto"}
        THEN weather.timezone
        ELSE PlaceTimezone(p))

\* Mutant of FinalPlace_p005: the place is rebuilt field by field and admin1
\* is left out.
FinalPlace_DropsAdmin1(weather, p) ==
    LET q == [k \in DOMAIN p \ {"admin1"} |-> p[k]]
    IN IF Has(weather, "timezone") /\ weather.timezone # ""
       THEN With(q, "timezone", TRUE, weather.timezone)
       ELSE q

\* part_005: finalPlace = {...place, timezone: resolvedTz || place.timezone}
FinalPlace_p005(weather, p) ==
    IF Has(weather, "timezone") /\ weather.timezone # ""
    THEN With(p, "timezone", TRUE, weather.timezone)
    ELSE p

DefaultAirQuality ==
    [european_aqi |-> << >>, pm2_5 |-> << >>, time |-> << >>, current |-> Null]

\* aqiJson.hourly?.[k] ?? []
AqiSeriesOf(json, k) ==
    IF Has(json, "hourly") /\ Has(json.hourly, k) THEN json.hourly[k] ELSE << >>

\* weatherJson.current_weather?.time; "" when undefined (both are falsy)
CwTime(weather) ==
    IF Has(weather, "current_weather") THEN weather.current_weather.time ELSE ""

\* Mutant of AlignCurrent: without an exact match the first hour is used.
AlignCurrent_FirstHour(cwTime, times, aqi, pm25) ==
    IF cwTime # "" /\ Len(times) > 0
    THEN LET idx == IF IndexOf(times, cwTime) >= 1 THEN IndexOf(times, cwTime) ELSE 1
         IN [european_aqi |-> At(aqi, idx), pm2_5 |-> At(pm25, idx)]
    ELSE Null

\* The `current` sample: the entries at the exact match of cwTime in times.
AlignCurrent(cwTime, times, aqi, pm25) ==
    IF cwTime # "" /\ Len(times) > 0
    THEN LET idx == IndexOf(times, cwTime) IN
         IF idx >= 1
         THEN [european_aqi |-> At(aqi, idx), pm2_5 |-> At(pm25, idx)]
         ELSE Null
    ELSE Null

\* air_quality of the payload: json is the parsed body, Unreadable or Failed.
AirQuality(weather, json) ==
    IF json \in {Unreadable, Failed} THEN DefaultAirQuality
    ELSE LET times == AqiSeriesOf(json, "time")
             aqi == AqiSeriesOf(json, "european_aqi")
             pm25 == AqiSeriesOf(json, "pm2_5")
         IN [european_aqi |-> aqi, pm2_5 |-> pm25, time |-> times,
             current |-> AlignCurrent(CwTime(weather), times, aqi, pm25)]

\* part_004: the repair of the mis-typed daily key.
RepairDaily_p004(weather) ==
    IF Has(weather, "daily")
       /\ ~Has(weather.daily, "temperature_2m_min")
       /\ Has(weather.daily, WrongMinKey)
    THEN With(weather, "daily", TRUE,
              With(weather.daily, "temperature_2m_min", TRUE, weather.daily[WrongMinKey]))
    ELSE weather

\* route.ts: payload
Payload_route(p, weather, aq) ==
    [place |-> p,
     current_weather |-> OrNull(weather, "current_weather"),
     hourly |-> OrNull(weather, "hourly"),
     daily |-> OrNull(weather, "daily"),
     air_quality |-> aq]

\* part_004: payload; p.timezone is resolvedTZ already
Payload_p004(p, weather, aq) ==
    LET w == RepairDaily_p004(weather) IN
    [place |-> p,
     timezone |-> p.timezone,
     current_weather |-> OrNull(w, "current_weather"),
     hourly |-> OrNull(w, "hourly"),
     daily |-> OrNull(w, "daily"),
     air_quality |-> aq]

\* part_005: payload
Payload_p005(p, weather, aq) ==
    [place |-> FinalPlace_p005(weather, p),
     current_weather |-> OrNull(weather, "current_weather"),
     hourly |-> OrNull(weather, "hourly"),
     daily |-> OrNull(weather, "daily"),
     air_quality |-> aq]

Payload(v, p, weather, aq) ==
    CASE v = "route" -> Payload_route(p, weather, aq)
      [] v = "p004"  -> Payload_p004(p, weather, aq)
      [] OTHER       -> Payload_p005(p, weather, aq)

NoResponse == [none |-> TRUE]
NoHeader == "<none>"

\* The 200 response.
OkResponse(payload) ==
    [status |-> 200, body |-> payload, cacheControl |-> "no-store, max-age=0"]

\* Mutant of ErrorResponse: detail is String(err), not err.message.
ErrorResponse_StringOfError(v, msg) ==
    [status |-> 502,
     body |-> [error |-> "Forecast API failed", detail |-> "Error: " \o msg],
     cacheControl |-> IF v = "route" THEN "no-store" ELSE NoHeader]

\* The 502 response of the outer catch.
ErrorResponse(v, msg) ==
    [status |-> 502,
     body |-> [error |-> "Forecast API failed", detail |-> msg],
     cacheControl |-> IF v = "route" THEN "no-store" ELSE NoHeader]

\* Mutant of Respond: the air-quality fetchRetry stands outside the try, so
\* its failure reaches the outer catch.
Respond_AqiFailureEscapes(v, p, weather, aqiBody) ==
    IF aqiBody = Failed
    THEN [status |-> 502,
          body |-> [error |-> "Forecast API failed", detail |-> "HTTP 503"],
          cacheControl |-> "no-store"]
    ELSE OkResponse(Payload(v, p, weather, AirQuality(weather, aqiBody)))

\* Mutant of Respond: aqiRes.json() stands outside the try, so an
\* unreadable body reaches the outer catch.
Respond_AqiUnreadableEscapes(v, p, weather, aqiBody) ==
    IF aqiBody = Unreadable
    THEN [status |-> 502,
          body |-> [error |-> "Forecast API failed", detail |-> JsonMessage],
          cacheControl |-> "no-store"]
    ELSE OkResponse(Payload(v, p, weather, AirQuality(weather, aqiBody)))

\* The end of GET's try block once the air-quality call is over: its try
\* turns a failed call (Failed) or an unreadable body (Unreadable) into the
\* default air_quality, and the 200 response carries the payload.
Respond(v, p, weather, aqiBody) ==
    OkResponse(Payload(v, p, weather, AirQuality(weather, aqiBody)))

(***************************************************************************)
(* The requests and the handler GET.                                       *)
(***************************************************************************)
Query(city, lat, lon) == [city |-> city, lat |-> lat, lon |-> lon]

\* The queries of the model: the city forms, valid coordinates with and
\* without a city, and coordinates that are empty, not numeric, not finite,
\* out of range or half given.
Requests ==
    { Query(c, NoParam, NoParam) : c \in {NoParam, " ", "Paris"} }
    \cup { Query(c, "59.33", "18.07") : c \in {NoParam, "Paris"} }
    \cup { Query("Paris", lat, "18.07") : lat \in {"", "abc", "Infinity", "95"} }
    \cup { Query("Paris", "59.33", NoParam) }

Init ==
    /\ variant \in Variants
    /\ req \in Requests
    /\ pc = "start"
    /\ place = Null
    /\ geo = NotCalled
    /\ fr = Idle
    /\ urls = << >>
    /\ weatherJson = NotCalled
    /\ aqiJson = NotCalled
    /\ response = NoResponse
    /\ handlers = << >>
    /\ ft = << >>
    /\ sw = << >>
    /\ sugg = << >>
    /\ rc = << >>

\* GET up to its first await: the coordinates path or the city path.
Begin ==
    /\ pc = "start"
    /\ IF CoordsGiven(variant, req)
       THEN IF variant = "p005"
            THEN /\ pc' = "reverse"
                 /\ fr' = StartCall("reverse", ReverseRetries)
                 /\ urls' = Append(urls,
                        [call |-> "reverse", lat |-> parseNum(req.lat),
                         lon |-> parseNum(req.lon)])
                 /\ place' = place
            ELSE /\ place' = IF variant = "route" THEN CoordsPlace_route(req)
                             ELSE CoordsPlace_p004(req)
                 /\ pc' = "weather"
                 /\ fr' = StartCall("weather", DefaultRetries)
                 /\ urls' = Append(urls, CoordsUrl("weather", place'))
       ELSE /\ pc' = "geocode"
            /\ fr' = StartCall("geocode", DefaultRetries)
            /\ urls' = Append(urls, [call |-> "geocode", name |-> CityName(req)])
            /\ place' = place
    /\ UNCHANGED <<outsideSpec, variant, req, geo, weatherJson, aqiJson, response>>

\* The geocode call ended: parse, pick the first result or fall back, and
\* start the weather call.
GeocodeDone ==
    /\ pc = "geocode"
    /\ fr.phase \in {"returned", "threw"}
    /\ \E body \in (IF fr.phase = "threw" THEN {Failed}
                    ELSE GeocodeBodies \cup {Unreadable}) :
          /\ geo' = body
          /\ place' = GeocodedPlace(variant, CityName(req), body)
    /\ pc' = "weather"
    /\ fr' = StartCall("weather", DefaultRetries)
    /\ urls' = Append(urls, CoordsUrl("weather", place'))
    /\ UNCHANGED <<outsideSpec, variant, req, weatherJson, aqiJson, response>>

\* part_005: the reverse-geocode call ended; the place is labelled either way.
ReverseDone ==
    /\ pc = "reverse"
    /\ fr.phase \in {"returned", "threw"}
    /\ \E body \in (IF fr.phase = "threw" THEN {Failed}
                    ELSE ReverseBodies \cup {Unreadable}) :
          /\ geo' = body
          /\ place' = ReversePlace_p005(parseNum(req.lat), parseNum(req.lon), body)
    /\ pc' = "weather"
    /\ fr' = StartCall("weather", DefaultRetries)
    /\ urls' = Append(urls, CoordsUrl("weather", place'))
    /\ UNCHANGED <<outsideSpec, variant, req, weatherJson, aqiJson, response>>

\* The weather call ended. A failure, or a body json() cannot read, leaves
\* the handler's try: the outer catch answers 502 (fr keeps the failed call,
\* whose error the catch reads). Otherwise part_004
\* resolves the timezone, and the air-quality call starts.
WeatherDone ==
    /\ pc = "weather"
    /\ fr.phase \in {"returned", "threw"}
    /\ \E body \in (IF fr.phase = "threw" THEN {Failed}
                    ELSE WeatherBodies \cup {Unreadable}) :
          /\ weatherJson' = body
          /\ IF body \in {Failed, Unreadable}
             THEN /\ response' = ErrorResponse(variant,
                        IF body = Failed THEN fr.error ELSE JsonMessage)
                  /\ pc' = "done"
                  /\ UNCHANGED <<place, urls, fr>>
             ELSE /\ place' = IF variant = "p004"
                              THEN With(place, "timezone", TRUE,
                                        ResolvedTZ_p004(body, place))
                              ELSE place
                  /\ pc' = "aqi"
                  /\ fr' = StartCall("aqi", AqiRetries)
                  /\ urls' = Append(urls, CoordsUrl("aqi", place))
                  /\ UNCHANGED response
    /\ UNCHANGED <<outsideSpec, variant, req, geo, aqiJson>>

\* The air-quality call ended, well or not: the payload is assembled and
\* the 200 response returned.
AirQualityDone ==
    /\ pc = "aqi"
    /\ fr.phase \in {"returned", "threw"}
    /\ \E body \in (IF fr.phase = "threw" THEN {Failed}
                    ELSE AqiBodies \cup {Unreadable}) :
          /\ aqiJson' = body
          /\ response' = Respond(variant, place, weatherJson, body)
    /\ pc' = "done"
    /\ fr' = Idle
    /\ UNCHANGED <<outsideSpec, variant, req, place, geo, urls, weatherJson>>

Next ==
    \/ Begin
    \/ FetchResponds
    \/ FetchRejects
    \/ BackoffElapses
    \/ GeocodeDone
    \/ ReverseDone
    \/ WeatherDone
    \/ AirQualityDone

Spec == Init /\ [][Next]_vars

(***************************************************************************)
(* Two invocations of GET running concurrently. Everything GET and         *)
(* fetchRetry work with is a local of the invocation (the modules declare  *)
(* no mutable binding outside the functions), so each invocation has its   *)
(* own record in `handlers`. The invocations interleave at the awaits of   *)
(* GET; a fetchRetry call, whose attempts touch its own locals only, is    *)
(* one step here: it returns a response or throws.                         *)
(***************************************************************************)
Handlers == {"A", "B"}

\* The queries of the concurrent invocations: a city, a blank city, coordinates.
ConcRequests ==
    { Query("Paris", NoParam, NoParam),
      Query(" ", NoParam, NoParam),
      Query(NoParam, "59.33", "18.07") }

\* What the upstreams answer a concurrent invocation: Failed when fetchRetry
\* threw (its last attempt got HTTP 503), a parsed body otherwise.
ConcFailure == HttpMessage(503)
ConcGeocodeAnswers ==
    { Failed, [generationtime_ms |-> 1], [generationtime_ms |-> 1, results |-> <<ParisTZ>>] }
ConcReverseAnswers ==
    { Failed,
      [generationtime_ms |-> 1,
       results |-> <<[name |-> "Solna", country |-> "Sweden",
                      admin1 |-> "Stockholm", timezone |-> "Europe/Stockholm"]>>] }
ConcWeatherAnswers ==
    { Failed,
      WeatherBody("Europe/Paris", CurrentWeather, HourlyAligned, DailyFull),
      WeatherBody(NoTz, Null, Null, Null) }
ConcAqiAnswers ==
    { Failed, [elevation |-> 38],
      [elevation |-> 38, hourly |-> AqiHourly(<<"T1">>, 1, TRUE)] }

\* The locals of an invocation of GET for query q, before its first statement.
Fresh(q) ==
    [req |-> q, pc |-> "start", place |-> Null, geo |-> NotCalled,
     weatherJson |-> NotCalled, aqiJson |-> NotCalled, response |-> NoResponse]

\* Mutant of LocalPlace: `place` is declared at module level, so an
\* invocation reads the binding another one wrote after its weather call.
LocalPlace_ModuleLevel(hs, h) ==
    IF hs["A"].weatherJson \notin {NotCalled, Failed}
    THEN hs["A"].place
    ELSE hs[h].place

\* GET's `let place`: a local of the invocation.
LocalPlace(hs, h) == hs[h].place

InitConc ==
    /\ variant \in Variants
    /\ req = Query(NoParam, NoParam, NoParam)
    /\ pc = "start"
    /\ place = Null
    /\ geo = NotCalled
    /\ fr = Idle
    /\ urls = << >>
    /\ weatherJson = NotCalled
    /\ aqiJson = NotCalled
    /\ response = NoResponse
    /\ handlers \in [Handlers -> {Fresh(q) : q \in ConcRequests}]
    /\ ft = << >>
    /\ sw = << >>
    /\ sugg = << >>
    /\ rc = << >>

\* An invocation runs up to its first await: the place lookup is in flight,
\* or (coordinates, route.ts and part_004) the weather call is.
ConcBegin ==
    \E h \in Handlers :
        LET l == handlers[h] IN
        /\ l.pc = "start"
        /\ handlers' = [handlers EXCEPT ![h] =
              IF CoordsGiven(variant, l.req)
              THEN IF variant = "p005"
                   THEN [l EXCEPT !.pc = "reverse"]
                   ELSE [l EXCEPT !.pc = "weather",
                                  !.place = IF variant = "route"
                                            THEN CoordsPlace_route(l.req)
                                            ELSE CoordsPlace_p004(l.req)]
              ELSE [l EXCEPT !.pc = "geocode"]]
        /\ UNCHANGED outsideConc

\* The place lookup of an invocation is over (geocode by name, or part_005's
\* reverse lookup): the place is set and the weather call starts.
ConcPlaceDone ==
    \E h \in Handlers :
        LET l == handlers[h] IN
        /\ l.pc \in {"geocode", "reverse"}
        /\ \E body \in (IF l.pc = "geocode" THEN ConcGeocodeAnswers
                        ELSE ConcReverseAnswers) :
              handlers' = [handlers EXCEPT ![h] =
                  [l EXCEPT !.pc = "weather",
                            !.geo = body,
                            !.place = IF l.pc = "geocode"
                                      THEN GeocodedPlace(variant, CityName(l.req), body)
                                      ELSE ReversePlace_p005(parseNum(l.req.lat),
                                                             parseNum(l.req.lon), body)]]
        /\ UNCHANGED outsideConc

\* The weather call of an invocation is over: 502 from the outer catch, or
\* (part_004) the timezone is resolved and the air-quality call starts.
ConcWeatherDone ==
    \E h \in Handlers :
        LET l == handlers[h] IN
        /\ l.pc = "weather"
        /\ \E body \in ConcWeatherAnswers :
              handlers' = [handlers EXCEPT ![h] =
                  IF body = Failed
                  THEN [l EXCEPT !.pc = "done",
                                 !.weatherJson = body,
                                 !.response = ErrorResponse(variant, ConcFailure)]
                  ELSE [l EXCEPT !.pc = "aqi",
                                 !.weatherJson = body,
                                 !.place = IF variant = "p004"
                                           THEN With(LocalPlace(handlers, h), "timezone", TRUE,
                                                     ResolvedTZ_p004(body, LocalPlace(handlers, h)))
                                           ELSE @]]
        /\ UNCHANGED outsideConc

\* The air-quality call of an invocation is over: the 200 response.
ConcAirQualityDone ==
    \E h \in Handlers :
        LET l == handlers[h] IN
        /\ l.pc = "aqi"
        /\ \E body \in ConcAqiAnswers :
              handlers' = [handlers EXCEPT ![h] =
                  [l EXCEPT !.pc = "done",
                            !.aqiJson = body,
                            !.response = Respond(variant, LocalPlace(handlers, h),
                                                 l.weatherJson, body)]]
        /\ UNCHANGED outsideConc

NextConc ==
    \/ ConcBegin
    \/ ConcPlaceDone
    \/ ConcWeatherDone
    \/ ConcAirQualityDone

SpecConc == InitConc /\ [][NextConc]_vars

(***************************************************************************)
(* One fetchRetry call with the timers of its attempts. Every iteration    *)
(* of the loop makes an AbortController and arms a timer (setTimeout) that *)
(* aborts it after timeoutMs; clearTimeout(id) follows the await of        *)
(* fetch() on both ways out of it. Time is not counted: an armed timer may *)
(* fire at any moment, which covers every timeoutMs.                       *)
(*   ft.inflight : the attempts whose fetch() is pending                   *)
(*   ft.timers   : the attempts whose abort timer is armed                 *)
(*   ft.aborted  : the attempts whose controller.abort() was called        *)
(*   ft.backoff  : the timer of the backoff delay is armed                 *)
(*   ft.elapsed  : the backoff delays that have elapsed so far             *)
(***************************************************************************)
\* The error fetch() rejects with when its signal is aborted.
Aborted == Rejected(AbortMessage)

\* The top of the loop body for attempt a: new AbortController(),
\* setTimeout(() => controller.abort(), timeoutMs), fetch(url, {signal}).
StartAttempt(f, a) ==
    [f EXCEPT !.attempt = a, !.phase = "inflight",
              !.inflight = @ \cup {a}, !.timers = @ \cup {a}]

\* Mutant of ClearTimeout: the timer of the attempt is left armed.
ClearTimeout_Forgotten(timers, a) == timers

\* clearTimeout(id)
ClearTimeout(timers, a) == timers \ {a}

\* Mutant of AwaitBackoff: the promise of the delay is not awaited, so
\* `continue` starts the next attempt while the delay is still running.
AwaitBackoff_NotAwaited(f) ==
    StartAttempt([f EXCEPT !.backoff = TRUE], f.attempt + 1)

\* await new Promise((r) => setTimeout(r, backoffMs * Math.pow(2, attempt)))
AwaitBackoff(f) == [f EXCEPT !.phase = "backoff", !.backoff = TRUE]

\* fetch() of attempt a settled with outcome o: the code after the await,
\* in the try or in the catch, up to the next await, return or throw.
Settle(f, a, o) ==
    LET step == AttemptStep(o, a, f.retries)
        g == [f EXCEPT !.inflight = @ \ {a},
                       !.timers = ClearTimeout(@, a),
                       !.log = Append(@, o)]
    IN CASE step = "return"  -> [g EXCEPT !.phase = "returned"]
         [] step = "backoff" -> AwaitBackoff(g)
         [] OTHER            -> [g EXCEPT !.phase = "threw"]

\* The call fetchRetry(url, opts, retries) up to its first await.
TimedCall(retries) ==
    StartAttempt(
        [retries |-> retries, attempt |-> 0, phase |-> "inflight",
         inflight |-> {}, timers |-> {}, aborted |-> {}, backoff |-> FALSE,
         elapsed |-> 0, log |-> << >>],
        0)

\* No request is being handled by GET (the parts outside the route).
NoRequest ==
    /\ variant = "route"
    /\ req = Query(NoParam, NoParam, NoParam)
    /\ pc = "start"
    /\ place = Null
    /\ geo = NotCalled
    /\ fr = Idle
    /\ urls = << >>
    /\ weatherJson = NotCalled
    /\ aqiJson = NotCalled
    /\ response = NoResponse
    /\ handlers = << >>

InitTimed ==
    /\ NoRequest
    /\ sw = << >>
    /\ sugg = << >>
    /\ rc = << >>
    /\ ft \in {TimedCall(r) : r \in {ReverseRetries, AqiRetries, DefaultRetries}}

\* fetch() of a pending attempt resolves with a response.
TimedResponds ==
    /\ \E a \in ft.inflight : \E s \in Statuses : ft' = Settle(ft, a, Resp(s))
    /\ UNCHANGED outsideTimed

\* fetch() of a pending attempt rejects with a network error.
TimedNetworkError ==
    /\ \E a \in ft.inflight : ft' = Settle(ft, a, Rejected(NetworkMessage))
    /\ UNCHANGED outsideTimed

\* The timer of attempt a fires after timeoutMs: controller.abort(); a
\* fetch() still pending on that controller's signal rejects.
TimerFires ==
    /\ \E a \in ft.timers :
          LET g == [ft EXCEPT !.timers = @ \ {a}, !.aborted = @ \cup {a}]
          IN ft' = IF a \in ft.inflight THEN Settle(g, a, Aborted) ELSE g
    /\ UNCHANGED outsideTimed

\* The timer of the backoff delay fires: the awaited promise resolves and
\* `continue` starts the next attempt (when the loop is waiting for it).
TimedBackoffElapses ==
    /\ ft.backoff
    /\ LET g == [ft EXCEPT !.backoff = FALSE, !.elapsed = @ + 1]
       IN ft' = IF ft.phase = "backoff" THEN StartAttempt(g, ft.attempt + 1) ELSE g
    /\ UNCHANGED outsideTimed

NextTimed ==
    \/ TimedResponds
    \/ TimedNetworkError
    \/ TimerFires
    \/ TimedBackoffElapses

SpecTimed == InitTimed /\ [][NextTimed]_vars

(***************************************************************************)
(* service-worker.js: the fetch handler with networkFirst and cacheFirst.  *)
(* The worker is installed (its app shell is in the cache CACHE_NAME) and  *)
(* handles one fetch event after the other; cache.put is not awaited, so a *)
(* put may complete at any later moment. Requests are GET requests, and    *)
(* the Cache API calls themselves succeed.                                 *)
(*   sw.cache   : CACHE_NAME, url -> the response stored, or Uncached      *)
(*   sw.puts    : the cache.put calls issued and not yet completed         *)
(*   sw.written : the events whose put has completed                       *)
(*   sw.ev      : the fetch event handled last                             *)
(***************************************************************************)
\* Fetch events the worker handles in a run of the model.
MaxEvents == 3

Uncached == [uncached |-> TRUE]
NetworkError == [networkError |-> TRUE]

\* A response stored by install (cache.addAll(APP_SHELL)): event 0.
InstallResponse(url) == [url |-> url, id |-> 0, status |-> 200]
\* The response the network gives event id for url.
NetworkResponse(url, id, status) == [url |-> url, id |-> id, status |-> status]
\* caches.match("/offline.html")
OfflinePage == InstallResponse("/offline.html")

SwRequest(url, destination, mode) ==
    [url |-> url, destination |-> destination, mode |-> mode]

\* The requests of the model: a navigation, a script, a style sheet, an
\* image, and a request with no destination (fetch() of the page).
SwRequests ==
    { SwRequest("/", "document", "navigate"),
      SwRequest("/app.js", "script", "no-cors"),
      SwRequest("/app.css", "style", "no-cors"),
      SwRequest("/icon-192.png", "image", "no-cors"),
      SwRequest("/api/forecast", "", "cors") }

SwUrls == { r.url : r \in SwRequests }

\* The part of APP_SHELL the model requests.
AppShell == {"/", "/icon-192.png"}

\* Mutant of Strategy: the two strategies are swapped, code is served
\* cache-first and images network-first.
Strategy_Swapped(destination) ==
    IF destination \in {"style", "script", "document"} THEN "cacheFirst"
    ELSE IF destination \in {"image", "icon"} THEN "networkFirst"
    ELSE "default"

\* The branches of the fetch listener.
Strategy(destination) ==
    IF destination \in {"style", "script", "document"} THEN "networkFirst"
    ELSE IF destination \in {"image", "icon"} THEN "cacheFirst"
    ELSE "default"

NoEvent ==
    [id |-> 0, req |-> SwRequest("", "", ""), strategy |-> "none", pc |-> "none",
     net |-> "none", order |-> << >>, answer |-> Null]

\* The event is answered with res (respondWith's promise settles).
Answered(w, res) == [w EXCEPT !.ev.pc = "answered", !.ev.answer = res]

\* cache.put(req, res.clone()), not awaited.
Put(w, res) == [w EXCEPT !.puts = @ \cup {res}]

\* caches.match(req)
Match(w, url) == w.cache[url]

\* The fetch listener for request r, up to the first await of its strategy.
OnFetch(w, r) ==
    LET id == w.served + 1
        st == Strategy(r.destination)
        e == [id |-> id, req |-> r, strategy |-> st, pc |-> "fetching",
              net |-> "none", order |-> <<"fetch">>, answer |-> Null]
        v == [w EXCEPT !.served = id]
    IN IF st = "cacheFirst"
       THEN IF Match(w, r.url) # Uncached
            THEN Answered([v EXCEPT !.ev = [e EXCEPT !.order = <<"match">>]],
                          Match(w, r.url))
            ELSE [v EXCEPT !.ev = [e EXCEPT !.order = <<"match", "fetch">>]]
       ELSE [v EXCEPT !.ev = e]

\* fetch(req) resolved with res.
OnResolved(w, res) ==
    LET v == [w EXCEPT !.ev.net = "resolved"]
    IN IF w.ev.strategy = "default" THEN Answered(v, res)
       ELSE Answered(Put(v, res), res)

\* fetch(req) rejected.
OnRejected(w) ==
    LET r == w.ev.req
        v == [w EXCEPT !.ev.net = "rejected"]
        m == [v EXCEPT !.ev.order = Append(@, "match")]
        cached == Match(w, r.url)
    IN CASE w.ev.strategy = "networkFirst" ->
              Answered(m, IF cached # Uncached THEN cached
                          ELSE IF r.mode = "navigate" THEN OfflinePage ELSE Null)
         [] w.ev.strategy = "cacheFirst" -> Answered(v, NetworkError)
         [] OTHER ->
              Answered(m, IF cached # Uncached THEN cached ELSE OfflinePage)

InitWorker ==
    /\ NoRequest
    /\ ft = << >>
    /\ sugg = << >>
    /\ rc = << >>
    /\ sw = [cache |-> [u \in SwUrls |->
                          IF u \in AppShell THEN InstallResponse(u) ELSE Uncached],
             puts |-> {}, written |-> {}, served |-> 0, ev |-> NoEvent]

\* A fetch event arrives.
SwFetchEvent ==
    /\ sw.ev.pc \in {"none", "answered"}
    /\ sw.served < MaxEvents
    /\ \E r \in SwRequests : sw' = OnFetch(sw, r)
    /\ UNCHANGED outsideWorker

\* The network answers the event's fetch(req), with any status.
SwNetworkResolves ==
    /\ sw.ev.pc = "fetching"
    /\ \E status \in {200, 503} :
          sw' = OnResolved(sw, NetworkResponse(sw.ev.req.url, sw.ev.id, status))
    /\ UNCHANGED outsideWorker

\* The event's fetch(req) fails (offline).
SwNetworkRejects ==
    /\ sw.ev.pc = "fetching"
    /\ sw' = OnRejected(sw)
    /\ UNCHANGED outsideWorker

\* A cache.put issued earlier completes.
SwPutCompletes ==
    /\ \E res \in sw.puts :
          sw' = [sw EXCEPT !.cache[res.url] = res,
                           !.puts = @ \ {res},
                           !.written = @ \cup {res.id}]
    /\ UNCHANGED outsideWorker

NextWorker ==
    \/ SwFetchEvent
    \/ SwNetworkResolves
    \/ SwNetworkRejects
    \/ SwPutCompletes

SpecWorker == InitWorker /\ [][NextWorker]_vars

(***************************************************************************)
(* page.tsx: the query box, useDebouncedValue and the suggestions effect.  *)
(* Every run of the effect has its own `active` flag, which the cleanup of *)
(* that run clears when the debounced query changes.                       *)
(*   sugg.query       : the state `query`                                  *)
(*   sugg.timer       : the timer of useDebouncedValue is armed            *)
(*   sugg.debounced   : the debounced query                                *)
(*   sugg.inflight    : the geocoding requests issued and not yet settled  *)
(*   sugg.suggestions : the state `suggestions`, with the query it is for  *)
(*   sugg.error       : the state `error` as the effect set it             *)
(***************************************************************************)
\* Changes of the query in a run of the model.
MaxTyped == 4

\* What is typed: one letter (too short to search), and two searches.
Queries == {"p", "pa", "be"}

\* !debounced || debounced.trim().length < 2
TooShort(q) == q \in {"", "p"}

\* How the geocoding request of the effect can end.
SuggestOutcomes == {"results", "noResults", "notOk", "rejected", "badJson"}

\* The message the catch block shows.
SuggestMessage(outcome) ==
    CASE outcome = "notOk"    -> "Failed fetching suggestions"
      [] outcome = "rejected" -> NetworkMessage
      [] OTHER                -> JsonMessage

\* Mutant of IsActive: the `if (!active) return` guards are missing.
IsActive_Unchecked(r) == TRUE

\* The `active` flag of the effect run that issued request r.
IsActive(r) == r.active

\* The effect body for debounced query q, up to its await.
RunEffect(g, q) ==
    LET h == [g EXCEPT !.error = [for |-> q, msg |-> ""]]
    IN IF TooShort(q)
       THEN [h EXCEPT !.suggestions = [for |-> q, items |-> "none"]]
       ELSE [h EXCEPT !.issued = @ + 1,
                      !.inflight = @ \cup {[id |-> h.issued + 1, q |-> q, active |-> TRUE]}]

\* The cleanup of the former effect run: active = false.
Cleanup(g) ==
    [g EXCEPT !.inflight = {[r EXCEPT !.active = FALSE] : r \in @}]

\* The continuation of the effect after its request r ended with outcome.
AfterSuggest(g, r, outcome) ==
    LET h == [g EXCEPT !.inflight = @ \ {r}]
    IN IF ~IsActive(r) THEN h
       ELSE IF outcome \in {"results", "noResults"}
       THEN [h EXCEPT !.suggestions = [for |-> r.q, items |-> outcome]]
       ELSE [h EXCEPT !.suggestions = [for |-> r.q, items |-> "none"],
                      !.error = [for |-> r.q, msg |-> SuggestMessage(outcome)]]

\* The page after mount: the effect has run for the empty query.
InitSuggestions ==
    /\ NoRequest
    /\ ft = << >>
    /\ sw = << >>
    /\ rc = << >>
    /\ sugg = [query |-> "", timer |-> FALSE, debounced |-> "",
               inflight |-> {}, issued |-> 0, typed |-> 0,
               suggestions |-> [for |-> "", items |-> "none"],
               error |-> [for |-> "", msg |-> ""]]

\* setQuery(q): the query changes and useDebouncedValue re-arms its timer.
SuggType ==
    /\ sugg.typed < MaxTyped
    /\ \E q \in Queries \ {sugg.query} :
          sugg' = [sugg EXCEPT !.query = q, !.timer = TRUE, !.typed = @ + 1]
    /\ UNCHANGED outsideSuggestions

\* The debounce timer fires: setV(value); when the debounced value changes
\* the effect's cleanup runs, then the effect for the new value.
SuggDebounceFires ==
    /\ sugg.timer
    /\ LET g == [sugg EXCEPT !.timer = FALSE]
       IN sugg' = IF sugg.query = sugg.debounced THEN g
                  ELSE RunEffect(Cleanup([g EXCEPT !.debounced = sugg.query]),
                                 sugg.query)
    /\ UNCHANGED outsideSuggestions

\* A geocoding request ends: response with or without results, a status that
\* is not ok, a rejection, or a body json() cannot read.
SuggResponds ==
    /\ \E r \in sugg.inflight : \E outcome \in SuggestOutcomes :
          sugg' = AfterSuggest(sugg, r, outcome)
    /\ UNCHANGED outsideSuggestions

NextSuggestions ==
    \/ SuggType
    \/ SuggDebounceFires
    \/ SuggResponds

SpecSuggestions == InitSuggestions /\ [][NextSuggestions]_vars

(***************************************************************************)
(* The recents list of the page (page.tsx): the state `recents`, which the *)
(* two forecast loaders update with a functional setRecents when a load    *)
(* succeeds, and which removeRecent and clearRecents edit.                 *)
(*   rc.recents : the state `recents`                                      *)
(*   rc.last    : the label of the most recent successful load             *)
(*   rc.edited  : removeRecent took that label out, or clearRecents ran,   *)
(*                since that load                                          *)
(*   rc.op      : the operation that ran last                              *)
(*   rc.ops     : the operations run so far                                *)
(***************************************************************************)
\* Operations in a run of the model.
MaxOps == 10

\* n.slice(0, 8)
MaxRecents == 8

\* The labels: city names as typed or as the backend names the place, two of
\* them also in another case, and coordinates as toFixed(2) prints them.
LabelOrder ==
    <<"paris", "oslo", "rome", "bern", "kyiv", "riga", "lima", "doha",
      "cork", "59.33,18.07">>

\* x.toLowerCase()
ToLowerCase(x) ==
    CASE x = "Paris" -> "paris"
      [] x = "OSLO"  -> "oslo"
      [] OTHER       -> x

\* The same label in the other case, where the model has one.
OtherCase(x) ==
    CASE x = "paris" -> "Paris"
      [] x = "Paris" -> "paris"
      [] x = "oslo"  -> "OSLO"
      [] x = "OSLO"  -> "oslo"
      [] OTHER       -> x

\* r.filter((x) => x.toLowerCase() !== city.toLowerCase())
Without(r, city) ==
    SelectSeq(r, LAMBDA x : ToLowerCase(x) # ToLowerCase(city))

\* arr.slice(0, n)
Slice(arr, n) == SubSeq(arr, 1, IF Len(arr) < n THEN Len(arr) ELSE n)

\* Mutant of Remember: the filter compares the labels as they are written.
Remember_CaseSensitive(r, label) ==
    Slice(<<label>> \o SelectSeq(r, LAMBDA x : x # label), MaxRecents)

\* The updater both loaders pass to setRecents.
Remember(r, label) == Slice(<<label>> \o Without(r, label), MaxRecents)

\* json.place.name || `${lat.toFixed(2)},${lon.toFixed(2)}`
RecentsLabel(name, fixed) == IF name # "" THEN name ELSE fixed

\* The first label of LabelOrder that is not in the list in any case.
FreshLabel(r) ==
    LET used == {ToLowerCase(r[i]) : i \in DOMAIN r}
        k == CHOOSE k \in DOMAIN LabelOrder :
                /\ LabelOrder[k] \notin used
                /\ \A j \in 1..(k - 1) : LabelOrder[j] \in used
    IN LabelOrder[k]

\* What a load is asked for: a label of the list, in either case, or one the
\* list does not have.
LoadLabels(r) ==
    {r[i] : i \in DOMAIN r} \cup {OtherCase(r[i]) : i \in DOMAIN r}
        \cup {FreshLabel(r)}

\* The try block of a loader after its awaits: a forecast, or the catch.
AfterLoad(c, label, ok) ==
    IF ok
    THEN [c EXCEPT !.recents = Remember(@, label), !.last = label,
                   !.edited = FALSE, !.op = "loaded", !.ops = @ + 1]
    ELSE [c EXCEPT !.op = "failed", !.ops = @ + 1]

\* The page after mount with nothing stored: recents is [].
InitRecents ==
    /\ NoRequest
    /\ ft = << >>
    /\ sw = << >>
    /\ sugg = << >>
    /\ rc = [recents |-> << >>, last |-> "", edited |-> FALSE,
             op |-> "none", ops |-> 0]

\* loadForecastByCityName(city): nothing for an empty city; otherwise the
\* request gives a forecast, or fails (not ok, timeout, error body).
RecLoadByCityName ==
    /\ rc.ops < MaxOps
    /\ \E city \in LoadLabels(rc.recents) \cup {""} : \E ok \in BOOLEAN :
          rc' = IF city = "" THEN [rc EXCEPT !.op = "none", !.ops = @ + 1]
                ELSE AfterLoad(rc, city, ok)
    /\ UNCHANGED outsideRecents

\* loadForecastByCoords(lat, lon): the label is the place's name, or the
\* coordinates when the place has no name.
RecLoadByCoords ==
    /\ rc.ops < MaxOps
    /\ \E name \in LoadLabels(rc.recents) \cup {""} : \E ok \in BOOLEAN :
          rc' = AfterLoad(rc, RecentsLabel(name, "59.33,18.07"), ok)
    /\ UNCHANGED outsideRecents

\* removeRecent(r), from the button of entry r of the list.
RecRemoveRecent ==
    /\ rc.ops < MaxOps
    /\ \E i \in DOMAIN rc.recents :
          rc' = [rc EXCEPT
                    !.recents = Without(@, rc.recents[i]),
                    !.edited = @ \/ ToLowerCase(rc.recents[i]) = ToLowerCase(rc.last),
                    !.op = "removed", !.ops = @ + 1]
    /\ UNCHANGED outsideRecents

\* clearRecents()
RecClearRecents ==
    /\ rc.ops < MaxOps
    /\ rc' = [rc EXCEPT !.recents = << >>, !.edited = TRUE,
                        !.op = "cleared", !.ops = @ + 1]
    /\ UNCHANGED outsideRecents

NextRecents ==
    \/ RecLoadByCityName
    \/ RecLoadByCoords
    \/ RecRemoveRecent
    \/ RecClearRecents

SpecRecents == InitRecents /\ [][NextRecents]_vars

(***************************************************************************)
(* Properties.                                                             *)
(***************************************************************************)
Done200 == pc = "done" /\ response.status = 200
Done502 == pc = "done" /\ response.status = 502

\* The weather call returned a body that json() could read.
WeatherRead == weatherJson \notin {NotCalled, Failed, Unreadable}

\* A timezone a client can format dates with.
AcceptableZone(tz) == tz # "" /\ tz # "auto" /\ IsValidTimeZone(tz)

\* C1: in every 200 response, timezone and place.timezone are present,
\* non-empty, not "auto" and accepted by the runtime's timezone validator,
\* however the place was resolved and whatever timezone the weather body has.
C1_TimezoneInvariant ==
    Done200 =>
        /\ Has(response.body, "timezone")
        /\ AcceptableZone(response.body.timezone)
        /\ Has(response.body.place, "timezone")
        /\ AcceptableZone(response.body.place.timezone)

\* C2: an attempt of fetchRetry that receives a 4xx status ends the call at
\* once: it is the last attempt, the call has thrown "HTTP <status>", and no
\* backoff delay follows it.
C2_ClientErrorIsTerminal ==
    \A i \in 1..Len(fr.log) :
        fr.log[i].status \in 400..499 =>
            /\ i = Len(fr.log)
            /\ fr.phase = "threw"
            /\ fr.error = HttpMessage(fr.log[i].status)
            /\ Len(fr.waited) = i - 1

\* The outcome of the last attempt of the call in fr.
LastOutcome == fr.log[Len(fr.log)]

\* out holds everything the upstream section `in` holds, unchanged.
Carries(out, in) == out # Null /\ \A k \in DOMAIN in : Has(out, k) /\ out[k] = in[k]

\* Section k of the 200 response is what the weather upstream delivered: null
\* when the body has no such section, every delivered field otherwise.
Delivered(k) ==
    IF Has(weatherJson, k)
    THEN Carries(response.body[k], weatherJson[k])
    ELSE response.body[k] = Null

\* C3: when the air-quality call fails on every attempt, or its body cannot
\* be read, while the weather body was read, the response is 200 with the
\* empty air_quality and the weather sections as the upstream delivered them.
C3_AirQualityFailureTolerated ==
    (pc = "done" /\ WeatherRead /\ aqiJson \in {Failed, Unreadable}) =>
        /\ response.status = 200
        /\ response.body.air_quality =
              [european_aqi |-> << >>, pm2_5 |-> << >>, time |-> << >>,
               current |-> Null]
        /\ \A k \in {"current_weather", "hourly", "daily"} : Delivered(k)

\* C3 happens: every air-quality attempt failed and the response is 200 with
\* all three weather sections.
C3_Witness ==
    /\ Done200
    /\ aqiJson = Failed
    /\ response.body.current_weather # Null
    /\ response.body.hourly # Null
    /\ response.body.daily # Null

\* C4: when the weather fetch fails (retries exhausted), the response is 502
\* with body {error, detail}, detail being the message of the failure; there
\* is no 200 and no weather payload.
C4_WeatherFailureIs502 ==
    (pc = "done" /\ weatherJson = Failed) =>
        /\ fr.call = "weather"
        /\ fr.phase = "threw"
        /\ response.status = 502
        /\ DOMAIN response.body = {"error", "detail"}
        /\ LastOutcome.status = 503 => response.body.detail = "HTTP 503"
        /\ LastOutcome.status = 404 => response.body.detail = "HTTP 404"
        /\ LastOutcome.status = 0 => response.body.detail = LastOutcome.error

\* C4 happens: four weather attempts, the last a 503, and the 502 says so.
C4_Witness ==
    /\ Done502
    /\ weatherJson = Failed
    /\ Len(fr.log) = 4
    /\ LastOutcome.status = 503
    /\ response.body.detail = "HTTP 503"

\* The city path was taken and geocoding gave no place: the call failed, its
\* body was unreadable, or it listed no result.
GeocodeGaveNothing ==
    /\ urls # << >>
    /\ urls[1].call = "geocode"
    /\ geo # NotCalled
    /\ \/ geo \in {Failed, Unreadable}
       \/ ~Has(geo, "results")
       \/ Len(geo.results) = 0

\* C5: on the city path, when geocoding lists no result or fails, the place
\* is the default one (59.3293, 18.0686); weather and air quality are fetched
\* for exactly these coordinates; if the weather body is read the response is
\* 200 with these coordinates, and a 502 comes only from the weather path.
C5_GeocodeFallback ==
    GeocodeGaveNothing =>
        /\ place.latitude = Num(593293)
        /\ place.longitude = Num(180686)
        /\ Len(urls) >= 2
        /\ urls[2].call = "weather"
        /\ \A i \in 2..Len(urls) :
              urls[i].lat = Num(593293) /\ urls[i].lon = Num(180686)
        /\ (pc = "done" /\ WeatherRead) =>
              /\ response.status = 200
              /\ response.body.place.latitude = Num(593293)
              /\ response.body.place.longitude = Num(180686)
              /\ Len(urls) = 3
              /\ urls[3].call = "aqi"
        /\ Done502 => ~WeatherRead

\* C5 happens: geocoding failed after its retries and the response is 200.
C5_Witness ==
    /\ Done200
    /\ urls[1].call = "geocode"
    /\ geo = Failed
    /\ response.body.place.name = "Paris"

\* C6: in a 200 response air_quality.current is non-null exactly when
\* current_weather.time occurs in air_quality.time, and then holds the entries
\* of european_aqi and pm2_5 at the first exact match; it is null without
\* current_weather and when the air-quality call failed.
C6_CurrentIsExactMatch ==
    Done200 =>
        LET aq == response.body.air_quality
            cw == response.body.current_weather
            hit == cw # Null /\ \E i \in 1..Len(aq.time) : aq.time[i] = cw.time
        IN /\ (aq.current # Null) <=> hit
           /\ hit => \E i \in 1..Len(aq.time) :
                 /\ aq.time[i] = cw.time
                 /\ \A j \in 1..(i - 1) : aq.time[j] # cw.time
                 /\ aq.current.european_aqi =
                       (IF i <= Len(aq.european_aqi) THEN <<aq.european_aqi[i]>> ELSE << >>)
                 /\ aq.current.pm2_5 =
                       (IF i <= Len(aq.pm2_5) THEN <<aq.pm2_5[i]>> ELSE << >>)
           /\ (cw = Null \/ aqiJson \in {Failed, Unreadable}) => aq.current = Null

\* C6 happens: the match is the second entry of air_quality.time.
C6_Witness ==
    /\ Done200
    /\ response.body.current_weather # Null
    /\ response.body.air_quality.time = <<"T2", "T1">>
    /\ response.body.air_quality.current # Null
    /\ response.body.air_quality.current.european_aqi = <<12>>

\* C7: a 2xx response ends the fetchRetry call with that response: it is
\* the last attempt, also when it is attempt retries + 1 after 5xx responses
\* only, and no backoff delay or attempt follows it.
C7_SuccessEndsTheCall ==
    /\ \A i \in 1..Len(fr.log) :
          fr.log[i].status \in 200..299 =>
              /\ i = Len(fr.log)
              /\ fr.phase = "returned"
              /\ Len(fr.waited) = i - 1
    /\ fr.phase = "returned" => LastOutcome.status \in 200..299

\* C7 happens: three 503 responses, then the success on the last attempt.
C7_Witness ==
    /\ fr.phase = "returned"
    /\ fr.retries = 3
    /\ Len(fr.log) = 4
    /\ \A i \in 1..3 : fr.log[i].status = 503
    /\ fr.log[4].status = 200

\* A failure fetchRetry is meant to retry: a 5xx status, or a rejection of
\* fetch() (timeout abort, network error).
Retryable(o) == o.status \in 500..599 \/ o.status = 0

\* C8: at most retries + 1 attempts are made; when every attempt ends in a
\* retryable failure the call throws exactly after attempt retries + 1, with
\* "HTTP <status>" of the last response or the error of the last attempt.
C8_ExhaustedRetries ==
    /\ Len(fr.log) <= fr.retries + 1
    /\ fr.attempt <= fr.retries
    /\ (\A i \in 1..Len(fr.log) : Retryable(fr.log[i])) =>
          /\ fr.phase # "returned"
          /\ (fr.phase = "threw") <=> (Len(fr.log) = fr.retries + 1)
          /\ fr.phase = "threw" =>
                /\ LastOutcome.status = 503 => fr.error = "HTTP 503"
                /\ LastOutcome.status = 0 => fr.error = LastOutcome.error

\* C8 happens: a timeout, then 503s: four attempts and the error "HTTP 503".
C8_Witness ==
    /\ fr.phase = "threw"
    /\ fr.retries = 3
    /\ Len(fr.log) = 4
    /\ fr.log[1] = Rejected(AbortMessage)
    /\ \A i \in 2..4 : fr.log[i].status = 503
    /\ fr.error = "HTTP 503"

\* C9: the response is 502 only when the weather path failed (the call
\* failed, or its body could not be read); when the weather body was read
\* the response is 200, whatever became of the geocode, reverse-geocode and
\* air-quality calls.
C9_Only502WhenWeatherFailed ==
    /\ Done502 => weatherJson \in {Failed, Unreadable}
    /\ (pc = "done" /\ WeatherRead) => response.status = 200
    /\ pc = "done" => response.status \in {200, 502}

\* C9 happens: the reverse lookup failed, the air-quality body was
\* unreadable, and the response is 200.
C9_Witness ==
    /\ Done200
    /\ urls[1].call = "reverse"
    /\ geo = Failed
    /\ aqiJson = Unreadable

\* C10: every 200 response has the six keys place, timezone, current_weather,
\* hourly, daily and air_quality; air_quality is an object with
\* european_aqi, pm2_5, time and current.
C10_StableShape ==
    Done200 =>
        /\ {"place", "timezone", "current_weather", "hourly", "daily", "air_quality"}
              \subseteq DOMAIN response.body
        /\ response.body.air_quality # Null
        /\ {"european_aqi", "pm2_5", "time", "current"}
              \subseteq DOMAIN response.body.air_quality

\* Every array of the block is as long as the block's time array.
Aligned(block) ==
    block = Null \/ \A k \in DOMAIN block : Len(block[k]) = Len(block.time)

\* C11: in every 200 response, each of hourly and daily that is non-null has
\* all its arrays as long as its time array, whatever lengths the weather
\* upstream delivered and also after the repair of daily.temperature_2m_min.
C11_IndexAlignment ==
    Done200 =>
        /\ Aligned(response.body.hourly)
        /\ Aligned(response.body.daily)

\* The reverse-geocode lookup was made and failed on every attempt.
ReverseFailed ==
    /\ urls # << >>
    /\ urls[1].call = "reverse"
    /\ geo = Failed

CityAndCoords == req.city = "Paris" /\ req.lat = "59.33" /\ req.lon = "18.07"

\* C13: when the request carries both a city and valid lat and lon, the
\* geocoding-by-name upstream is never called, every upstream call is made
\* for the supplied coordinates, weather and air quality among them, and the
\* place of the 200 response has the supplied latitude and longitude.
C13_CoordinatesWin ==
    CityAndCoords =>
        /\ \A i \in 1..Len(urls) :
              /\ urls[i].call # "geocode"
              /\ urls[i].lat = Num(593300)
              /\ urls[i].lon = Num(180700)
        /\ place # Null =>
              /\ place.latitude = Num(593300)
              /\ place.longitude = Num(180700)
        /\ pc # "start" => \E i \in 1..Len(urls) : urls[i].call \in {"reverse", "weather"}
        /\ (pc = "done" /\ WeatherRead) =>
              /\ response.status = 200
              /\ response.body.place.latitude = Num(593300)
              /\ response.body.place.longitude = Num(180700)
              /\ \E i \in 1..Len(urls) : urls[i].call = "weather"
              /\ urls[Len(urls)].call = "aqi"

\* C13 happens: city=Paris with lat and lon, answered 200 for the coordinates.
C13_Witness ==
    /\ Done200
    /\ CityAndCoords
    /\ response.body.place.latitude = Num(593300)
    /\ urls[Len(urls)] = [call |-> "aqi", lat |-> Num(593300), lon |-> Num(180700)]

\* C14: in a 200 response whose upstream daily block lacks temperature_2m_min
\* but has an array under "temperature_2_ m_min", daily.temperature_2m_min is
\* that array; an upstream temperature_2m_min is returned unchanged; and
\* neither kind of daily block makes the request fail.
C14_MalformedKeyRepair ==
    (pc = "done" /\ WeatherRead /\ Has(weatherJson, "daily")) =>
        LET up == weatherJson.daily
            out == response.body.daily
        IN /\ response.status = 200
           /\ out # Null
           /\ (~Has(up, "temperature_2m_min") /\ Has(up, WrongMinKey)) =>
                 /\ Has(out, "temperature_2m_min")
                 /\ out.temperature_2m_min = up[WrongMinKey]
           /\ Has(up, "temperature_2m_min") =>
                 /\ Has(out, "temperature_2m_min")
                 /\ out.temperature_2m_min = up.temperature_2m_min

\* The timezone of the first result of the place lookup, NoTz without one.
GeocodedTimezone ==
    IF Has(geo, "results") /\ Len(geo.results) > 0 /\ Has(geo.results[1], "timezone")
    THEN geo.results[1].timezone
    ELSE NoTz

\* The candidate zone: the weather body's timezone when present and not
\* "auto", otherwise the geocoded one.
CandidateZone ==
    IF Has(weatherJson, "timezone") /\ weatherJson.timezone # "auto"
    THEN weatherJson.timezone
    ELSE GeocodedTimezone

\* The zone the precedence rule gives: the candidate when the runtime accepts
\* it, "UTC" in every other case.
ExpectedZone ==
    IF CandidateZone \notin {NoTz, "auto"} /\ IsValidTimeZone(CandidateZone)
    THEN CandidateZone
    ELSE "UTC"

\* C15: the timezone of a 200 response is the weather body's timezone when
\* present and not "auto", otherwise the geocoded timezone of the place, if
\* the runtime accepts that candidate as a zone, and "UTC" in every other
\* case; place.timezone and the root timezone both hold that value.
C15_TimezonePrecedence ==
    Done200 =>
        /\ Has(response.body, "timezone")
        /\ response.body.timezone = ExpectedZone
        /\ Has(response.body.place, "timezone")
        /\ response.body.place.timezone = ExpectedZone

\* n is a finite number (1/10000 units) between lo and hi.
InRange(n, lo, hi) == n.fin /\ lo <= n.v /\ n.v <= hi

\* C16: in every 200 response place.latitude lies in [-90, 90] and
\* place.longitude in [-180, 180], also when they come from the lat and lon
\* query parameters.
C16_CoordinateRanges ==
    Done200 =>
        /\ InRange(response.body.place.latitude, 0 - 900000, 900000)
        /\ InRange(response.body.place.longitude, 0 - 1800000, 1800000)

\* C17: in every 200 response air_quality.time, air_quality.european_aqi and
\* air_quality.pm2_5 have the same length, also when the air-quality body
\* omits one of the series or the hourly block.
C17_AirQualitySeriesAligned ==
    Done200 =>
        LET aq == response.body.air_quality
        IN /\ Len(aq.european_aqi) = Len(aq.time)
           /\ Len(aq.pm2_5) = Len(aq.time)

\* The request has no valid coordinates and its city is missing, empty or
\* whitespace only.
EmptyCityNoCoords == ~CoordsGiven(variant, req) /\ CityRaw(req) = ""

\* C18: a request without valid coordinates whose city is missing, empty or
\* whitespace only is handled as city=Stockholm: geocoding is called with the
\* name "Stockholm", the place is the geocoder's first result or the fallback
\* named "Stockholm", and the response is 200 whenever the weather body is
\* read; a 502 comes from the weather path only.
C18_EmptyCityIsStockholm ==
    (EmptyCityNoCoords /\ pc # "start") =>
        /\ urls[1] = [call |-> "geocode", name |-> "Stockholm"]
        /\ geo # NotCalled =>
              IF GeocodeGaveNothing
              THEN /\ place.name = "Stockholm"
                   /\ place.latitude = Num(593293)
                   /\ place.longitude = Num(180686)
              ELSE /\ place.name = geo.results[1].name
                   /\ place.latitude = geo.results[1].latitude
                   /\ place.longitude = geo.results[1].longitude
        /\ (pc = "done" /\ WeatherRead) =>
              /\ response.status = 200
              /\ response.body.place.name = place.name
              /\ response.body.place.latitude = place.latitude
              /\ response.body.place.longitude = place.longitude
        /\ Done502 => weatherJson \in {Failed, Unreadable}

\* C18 happens: city=" " without coordinates, the geocoder lists nothing, and
\* the 200 response is for the fallback place named "Stockholm".
C18_Witness ==
    /\ Done200
    /\ req.city = " "
    /\ req.lat = NoParam
    /\ urls[1] = [call |-> "geocode", name |-> "Stockholm"]
    /\ response.body.place.name = "Stockholm"

\* The header value forbids storing the response.
ForbidsStoring(cc) == cc \in {"no-store", "no-store, max-age=0"}

\* C19: every response returned, the 200 and the 502 alike, carries a
\* cache-control header with no-store.
C19_NoStoreOnEveryResponse ==
    pc = "done" => ForbidsStoring(response.cacheControl)

\* The place GET resolves for query q when the place lookup answered g.
PlaceAlone(v, q, g) ==
    IF CoordsGiven(v, q)
    THEN CASE v = "route" -> CoordsPlace_route(q)
           [] v = "p004"  -> CoordsPlace_p004(q)
           [] OTHER       -> ReversePlace_p005(parseNum(q.lat), parseNum(q.lon), g)
    ELSE GeocodedPlace(v, CityName(q), g)

\* The response to query q handled alone, the upstreams answering g (place
\* lookup), w (weather) and a (air quality).
ResponseAlone(v, q, g, w, a) ==
    IF w = Failed THEN ErrorResponse(v, ConcFailure)
    ELSE LET p == PlaceAlone(v, q, g) IN
         Respond(v,
                 IF v = "p004"
                 THEN With(p, "timezone", TRUE, ResolvedTZ_p004(w, p))
                 ELSE p,
                 w, a)

\* C20: when two requests are handled concurrently, under every interleaving
\* of their upstream calls and completions, the response of each equals the
\* response it would get handled alone with the same upstream answers, and
\* holds its own weather and air-quality data.
C20_NoSharedState ==
    \A h \in Handlers :
        LET l == handlers[h] IN
        l.pc = "done" =>
            /\ l.response = ResponseAlone(variant, l.req, l.geo, l.weatherJson, l.aqiJson)
            /\ l.response.status = 200 =>
                  /\ l.response.body.current_weather = OrNull(l.weatherJson, "current_weather")
                  /\ l.response.body.air_quality.time = AqiSeriesOf(l.aqiJson, "time")

\* C20 happens: both invocations are answered 200, for different places with
\* different weather and air-quality answers.
C20_Witness ==
    /\ handlers["A"].pc = "done"
    /\ handlers["B"].pc = "done"
    /\ handlers["A"].response.status = 200
    /\ handlers["B"].response.status = 200
    /\ handlers["A"].response.body.place.name = "Paris"
    /\ handlers["B"].response.body.place.latitude = Num(593300)
    /\ handlers["A"].response.body.current_weather # Null
    /\ handlers["B"].response.body.current_weather = Null
    /\ handlers["A"].response.body.air_quality.time = <<"T1">>
    /\ handlers["B"].response.body.air_quality.time = << >>

\* C21 as stated: the delay waited before attempt k (k >= 1) of fetchRetry
\* is backoffMs * 2^k, whatever the failure of the attempt before it.
C21_BackoffDelay ==
    \A k \in 1..Len(fr.waited) : fr.waited[k] = DefaultBackoffMs * Pow2(k)

\* C21 amended: a delay is waited before every attempt k >= 1, and it is
\* backoffMs * 2^(k-1) (the exponent is the index of the attempt that
\* failed), whether that attempt failed with a 5xx status or with a timeout
\* or network error.
C21_BackoffDelayAmended ==
    /\ Len(fr.waited) = fr.attempt + (IF fr.phase = "backoff" THEN 1 ELSE 0)
    /\ \A k \in 1..Len(fr.waited) :
          /\ k <= fr.retries
          /\ fr.waited[k] = DefaultBackoffMs * Pow2(k - 1)

\* C21 happens: a timeout, a network error and a 503, each followed by its
\* delay: 500, 1000 and 2000 ms before attempts 1, 2 and 3.
C21_Witness ==
    /\ fr.attempt = 3
    /\ fr.log = <<Rejected(AbortMessage), Rejected(NetworkMessage), Resp(503)>>
    /\ fr.waited = <<500, 1000, 2000>>

\* C22: within one fetchRetry call at most one attempt is in flight; attempt
\* k+1 is started only when attempts 0..k have ended and the k+1 backoff
\* delays that follow them have elapsed; no attempt runs during a delay.
C22_AttemptsAreSequential ==
    /\ Cardinality(ft.inflight) <= 1
    /\ ft.inflight \subseteq {ft.attempt}
    /\ ft.inflight # {} =>
          /\ ~ft.backoff
          /\ Len(ft.log) = ft.attempt
          /\ ft.elapsed = ft.attempt
    /\ ft.backoff => Len(ft.log) = ft.attempt + 1 /\ ft.elapsed = ft.attempt

\* C22 happens: attempt 3 is in flight after three attempts that ended and
\* three delays that elapsed.
C22_Witness ==
    /\ ft.inflight = {3}
    /\ Len(ft.log) = 3
    /\ ft.elapsed = 3

\* C23: a pending attempt always has its abort timer armed; an attempt the
\* timer aborts ends as a failure that is retried after a backoff while
\* retries remain and fails the call otherwise; only the timer of the pending
\* attempt is armed, so an attempt that got its response is never aborted
\* afterwards, and no timer aborts another attempt: every abort is the abort
\* of the attempt that was pending, recorded as its outcome.
C23_TimeoutAbortsOwnAttempt ==
    /\ ft.timers = ft.inflight
    /\ \A a \in ft.aborted : a < Len(ft.log) /\ ft.log[a + 1] = Aborted
    /\ \A i \in 1..Len(ft.log) :
          ft.log[i] = Aborted =>
              /\ (i - 1) \in ft.aborted
              /\ i <= ft.retries => (ft.attempt > i - 1 \/ ft.phase = "backoff")
              /\ i = ft.retries + 1 => ft.phase = "threw"
    /\ ft.phase = "threw" => Len(ft.log) = ft.retries + 1

\* C23 happens: attempt 0 timed out and was retried, attempt 1 got its
\* response, and the last attempt timed out, which failed the call.
C23_Witness ==
    /\ ft.retries = 2
    /\ ft.phase = "threw"
    /\ ft.log = <<Aborted, Resp(503), Aborted>>
    /\ ft.aborted = {0, 2}

\* The fields of a place that only the resolver sets.
ResolverFields == {"name", "country", "admin1", "latitude", "longitude"}

\* Places p and q agree on every resolver field: present in both or in
\* neither, and equal when present.
SameResolved(p, q) ==
    \A k \in ResolverFields :
        /\ Has(p, k) <=> Has(q, k)
        /\ Has(p, k) => p[k] = q[k]

\* C24: once the place is resolved no later step changes its name, country,
\* admin1, latitude or longitude, and the place of every 200 response has
\* these fields as the resolver produced them; only timezone may differ.
C24_PlaceIsImmutable ==
    /\ [](Done200 => SameResolved(response.body.place, place))
    /\ [][place # Null => (place' # Null /\ SameResolved(place', place))]_vars

\* C24 happens: the geocoder's first result had no timezone, the 200 response
\* carries its name, region and coordinates and the timezone back-filled from
\* the weather body.
C24_Witness ==
    /\ Done200
    /\ geo # NotCalled
    /\ Has(geo, "results")
    /\ geo.results = <<ParisNoTZ, ParisTexas>>
    /\ response.body.place.admin1 = "Ile-de-France"
    /\ response.body.place.latitude = Num(488566)
    /\ Has(response.body.place, "timezone")
    /\ response.body.place.timezone = "Europe/Paris"

\* The parameter is missing, empty or not a finite number.
InvalidCoord(s) == s \in {NoParam, ""} \/ ~NumberIsFinite(ToNumber(s))

\* C25: when lat or lon is missing, empty or not a finite number, the request
\* goes through the city path (geocoding by the city or the default city),
\* and every weather and air-quality call is made for finite coordinates
\* that are not the zero of an empty parameter.
C25_InvalidCoordsUseCityPath ==
    ((InvalidCoord(req.lat) \/ InvalidCoord(req.lon)) /\ pc # "start") =>
        /\ urls[1] = [call |-> "geocode", name |-> CityName(req)]
        /\ \A i \in 2..Len(urls) :
              /\ NumberIsFinite(urls[i].lat)
              /\ NumberIsFinite(urls[i].lon)
              /\ req.lat = "" => urls[i].lat # Num(0)

\* The upstream calls made so far, in order.
Calls == [i \in 1..Len(urls) |-> urls[i].call]

\* C26: the upstream calls of a request are made one after the other: the
\* place lookup, if any, is over before the weather call starts, the weather
\* body is read before the air-quality call starts, a failed weather call is
\* followed by no air-quality call, attempts are only ever made for the
\* latest call, and weather and air quality are requested for the latitude
\* and longitude of the resolved place.
C26_CallsAreOrdered ==
    /\ Calls \in { << >>, <<"geocode">>, <<"reverse">>, <<"weather">>,
                   <<"geocode", "weather">>, <<"reverse", "weather">>,
                   <<"weather", "aqi">>,
                   <<"geocode", "weather", "aqi">>,
                   <<"reverse", "weather", "aqi">> }
    /\ fr.phase # "idle" => (urls # << >> /\ fr.call = urls[Len(urls)].call)
    /\ \A i \in 1..Len(urls) :
          /\ (urls[i].call = "weather" /\ i > 1) => geo # NotCalled
          /\ urls[i].call = "aqi" => WeatherRead
          /\ urls[i].call \in {"weather", "aqi"} =>
                /\ urls[i].lat = place.latitude
                /\ urls[i].lon = place.longitude
    /\ weatherJson \in {Failed, Unreadable} =>
          /\ pc = "done"
          /\ \A i \in 1..Len(urls) : urls[i].call # "aqi"

\* C26 happens: geocoding needed all its attempts, then the weather call,
\* then the air-quality call for the same coordinates.
C26_Witness ==
    /\ pc = "aqi"
    /\ Calls = <<"geocode", "weather", "aqi">>
    /\ geo = Failed
    /\ urls[2].lat = urls[3].lat
    /\ urls[2].lon = urls[3].lon
    /\ fr.call = "aqi"
    /\ Len(fr.log) = 3

\* The most attempts a call to the named upstream can make.
MaxAttempts(call) ==
    CASE call = "geocode" -> 4
      [] call = "reverse" -> 2
      [] call = "weather" -> 4
      [] call = "aqi"     -> 3
      [] OTHER            -> 0

\* Steps the call in fr can still take, and steps the request can still take.
CallMeasure ==
    CASE fr.phase = "inflight" -> 2 * (fr.retries - fr.attempt) + 3
      [] fr.phase = "backoff"  -> 2 * (fr.retries - fr.attempt) + 2
      [] OTHER                 -> 0
Measure ==
    CallMeasure +
    20 * (CASE pc = "start" -> 4
            [] pc \in {"geocode", "reverse"} -> 3
            [] pc = "weather" -> 2
            [] pc = "aqi" -> 1
            [] OTHER -> 0)

\* C27: every request ends with exactly one response, 200 or 502: until the
\* response is returned a step is always possible, every step lowers a
\* natural-number measure, and the response once returned is final; the
\* request calls at most three upstreams, geocoding (or the reverse lookup),
\* weather and air quality, with at most 4, 4 and 3 attempts: 11 in total.
C27_TerminatesWithOneResponse ==
    /\ [](/\ (pc = "done") <=> (response # NoResponse)
          /\ pc = "done" => response.status \in {200, 502}
          /\ pc # "done" => ENABLED Next
          /\ Measure >= 0
          /\ Len(urls) <= 3
          /\ \A i, j \in 1..Len(urls) : urls[i].call = urls[j].call => i = j
          /\ Len(fr.log) <= MaxAttempts(fr.call)
          /\ MaxAttempts("geocode") + MaxAttempts("weather") + MaxAttempts("aqi") = 11
          /\ MaxAttempts("reverse") <= MaxAttempts("geocode"))
    /\ [][Measure' < Measure]_vars

\* C27 happens: geocoding failed after four attempts of mixed failures, the
\* weather call needed four attempts, and the air-quality call is at its
\* third attempt.
C27_Witness ==
    /\ Calls = <<"geocode", "weather", "aqi">>
    /\ geo = Failed
    /\ WeatherRead
    /\ fr.call = "aqi"
    /\ Len(fr.log) = 3
    /\ fr.log[1] = Resp(404)
    /\ fr.log[2] = Rejected(AbortMessage)
    /\ fr.log[3] = Resp(503)
    /\ fr.phase = "threw"

\* The event handled last is a document, style or script request.
CodeRequest == sw.ev.req.destination \in {"document", "style", "script"}

\* What a failed network fetch is answered with: the cached copy, or the
\* offline page for a navigation, or nothing.
CacheAnswer(w) ==
    IF w.cache[w.ev.req.url] # Uncached THEN w.cache[w.ev.req.url]
    ELSE IF w.ev.req.mode = "navigate" THEN OfflinePage ELSE Null

\* C28: for document, style and script requests the worker goes to the
\* network first and consults the cache only after the network fetch failed;
\* a network response is the answer and its cache.put is issued for the
\* request's url; a failed fetch is answered with the cached copy (the
\* offline page for a navigation without one), issues no put, and leaves the
\* cache as it is.
C28_NetworkFirst ==
    /\ [](CodeRequest =>
            /\ sw.ev.order[1] = "fetch"
            /\ Len(sw.ev.order) > 1 => sw.ev.net = "rejected"
            /\ sw.ev.pc = "answered" => sw.ev.net # "none"
            /\ sw.ev.net = "resolved" =>
                  /\ sw.ev.pc = "answered"
                  /\ sw.ev.answer.id = sw.ev.id
                  /\ sw.ev.answer.url = sw.ev.req.url
                  /\ sw.ev.answer \in sw.puts \/ sw.ev.id \in sw.written
            /\ sw.ev.id \in sw.written => sw.ev.net = "resolved"
            /\ sw.ev.net = "rejected" =>
                  /\ sw.ev.order = <<"fetch", "match">>
                  /\ sw.ev.answer = Null \/ sw.ev.answer.id < sw.ev.id
                  /\ \A res \in sw.puts : res.id # sw.ev.id)
    /\ [][(CodeRequest /\ sw.ev.pc = "fetching" /\ sw'.ev.net = "rejected") =>
             /\ sw'.ev.answer = CacheAnswer(sw)
             /\ sw'.cache = sw.cache
             /\ sw'.puts = sw.puts]_vars

\* C28 happens: the script was fetched from the network and stored by the
\* first event; the network fails the third event, which is answered with
\* that stored copy.
C28_Witness ==
    /\ sw.ev.id = 3
    /\ sw.ev.req.destination = "script"
    /\ sw.ev.net = "rejected"
    /\ sw.ev.pc = "answered"
    /\ sw.ev.answer = NetworkResponse("/app.js", 1, 200)
    /\ sw.cache["/app.js"] = NetworkResponse("/app.js", 1, 200)

\* C29: whenever the suggestions effect changes suggestions or error, the
\* new value belongs to the current debounced query; of the requests in
\* flight only the one issued for the latest debounced query is active, so a
\* response or failure of any earlier query changes neither.
C29_StaleSuggestionsIgnored ==
    /\ [](\A r \in sugg.inflight :
            r.active => (r.q = sugg.debounced /\ r.id = sugg.issued))
    /\ [][/\ sugg'.suggestions # sugg.suggestions =>
                sugg'.suggestions.for = sugg'.debounced
          /\ sugg'.error # sugg.error =>
                sugg'.error.for = sugg'.debounced
          /\ \A r \in sugg.inflight :
                (r \notin sugg'.inflight /\ r.id # sugg.issued) =>
                    /\ sugg'.suggestions = sugg.suggestions
                    /\ sugg'.error = sugg.error]_vars

\* C29 happens: the request for "pa" is still in flight, no longer active,
\* while the suggestions shown are the results for the later query "be".
C29_Witness ==
    /\ sugg.debounced = "be"
    /\ sugg.suggestions = [for |-> "be", items |-> "results"]
    /\ \E r \in sugg.inflight : r.q = "pa" /\ ~r.active


\* C30: from an empty recents list, after any successful loads, removeRecent
\* and clearRecents, the list has at most 8 entries, no two entries equal
\* ignoring case, and the label of the most recent successful load first; a
\* failed load leaves the list unchanged.
C30_RecentsList ==
    /\ [](/\ Len(rc.recents) <= 8
          /\ \A i, j \in DOMAIN rc.recents :
                ToLowerCase(rc.recents[i]) = ToLowerCase(rc.recents[j]) => i = j
          /\ rc.last # "" =>
                (rc.recents # << >> /\ Head(rc.recents) = rc.last))
    /\ [][rc'.op = "failed" => rc'.recents = rc.recents]_vars

\* C30 as amended: the label of the most recent successful load is first
\* unless removeRecent took it out or clearRecents ran since that load.
C30_RecentsListAmended ==
    /\ [](/\ Len(rc.recents) <= 8
          /\ \A i, j \in DOMAIN rc.recents :
                ToLowerCase(rc.recents[i]) = ToLowerCase(rc.recents[j]) => i = j
          /\ (rc.last # "" /\ ~rc.edited) =>
                (rc.recents # << >> /\ Head(rc.recents) = rc.last))
    /\ [][rc'.op = "failed" => rc'.recents = rc.recents]_vars

\* C30 happens: the list is full, a ninth label has pushed the oldest out,
\* and "OSLO" heads it after a load that replaced the entry "oslo".
C30_Witness ==
    /\ Len(rc.recents) = 8
    /\ rc.op = "loaded"
    /\ rc.last = "OSLO"
    /\ Head(rc.recents) = "OSLO"
    /\ \E i \in DOMAIN rc.recents : rc.recents[i] = "cork"
    /\ \A i \in DOMAIN rc.recents : rc.recents[i] \notin {"oslo", "paris"}

=============================================================================
